---- MODULE Spec2Model ----
(***************************************************************************)
(* Request admission and cost accounting of the MCP tool server:           *)
(* src/src/utils/rate_limiter.py (TokenBucket, RateLimiter,                *)
(* APIRateLimiter) and the Amplitude client that uses it,                  *)
(* src/src/tools/amplitude/client.py (AmplitudeClient._make_request).      *)
(*                                                                         *)
(* Units.  time.time() is read in whole milliseconds.  Token counts are    *)
(* kept in units of 1/TokenScale of a token, TokenScale = 60 * 1000, so    *)
(* that refill_rate = requests_per_minute / 60.0 tokens per second is      *)
(* exactly requests_per_minute scaled tokens per millisecond and every     *)
(* token count the code computes for a millisecond clock is represented    *)
(* exactly.                                                                *)
(***************************************************************************)
EXTENDS Integers, Sequences, FiniteSets, TLC

VARIABLES
    now,                  \* the wall clock, time.time(), in milliseconds
    focus,                \* the RateLimiter instance the behaviour drives
    buckets,              \* RateLimiter.buckets of every instance: limiter -> (key -> TokenBucket)
    amplitude_costs,      \* APIRateLimiter.amplitude_costs: user -> (str(timestamp) -> cost)
    amplitude_concurrent, \* APIRateLimiter.amplitude_concurrent: user -> active requests
    inflight,             \* user_id -> number of _make_request coroutines suspended in
                          \* `await self.client.get(url)` (their only suspension point)
    last,                 \* the call made by the latest step and what it returned
    ticks,                \* number of clock advances so far
    hist                  \* per bucket key: the check calls made and those admitted;
                          \* per <<user_id>>, where a behaviour records them: the
                          \* start_amplitude_request calls made and the requests admitted

vars == <<now, focus, buckets, amplitude_costs, amplitude_concurrent, inflight, last, ticks, hist>>

----------------------------------------------------------------------------
(* Bounds of the model *)

MaxTicks == 1         \* clock advances per behaviour
MaxCalls == 6         \* rate-limit checks per behaviour with a running clock
MaxExtra == 2         \* checks on one key beyond the burst of its limiter, clock stopped
MaxTokens == 2        \* largest `tokens` argument of check_rate_limit
NumCoroutines == 6    \* overlapping _make_request coroutines
MaxDays == 31         \* largest `days` argument of calculate_amplitude_cost
MaxConditions == 2    \* largest `conditions` argument, and most segment filters of a query
MaxQueryTypeCost == 10 \* largest `query_type_cost` argument
MaxEvents == 3        \* most events of a query

----------------------------------------------------------------------------
(* Units *)

\* clock readings per second (1000: time.time() read in milliseconds)
ClockResolution == 1000
TokenScale == 60 * ClockResolution

Min(a, b) == IF a <= b THEN a ELSE b

----------------------------------------------------------------------------
(* RateLimiter instances and their configuration *)

RateLimiterDefaultRpm == 60
RateLimiterDefaultBurst == 10
NotionRpm == 180
NotionBurst == 20
SlackRpm == 60
SlackBurst == 10
GithubRpm == 5000
GithubBurst == 100
AmplitudeRpm == 360
AmplitudeBurst == 5

\* APIRateLimiter.limits, and the module-level rate_limiter under "global"
limits ==
    [ notion    |-> [requests_per_minute |-> NotionRpm,    burst |-> NotionBurst],
      slack     |-> [requests_per_minute |-> SlackRpm,     burst |-> SlackBurst],
      github    |-> [requests_per_minute |-> GithubRpm,    burst |-> GithubBurst],
      amplitude |-> [requests_per_minute |-> AmplitudeRpm, burst |-> AmplitudeBurst] ]

rate_limiter == [requests_per_minute |-> RateLimiterDefaultRpm, burst |-> RateLimiterDefaultBurst]

APIs == DOMAIN limits
Limiters == APIs \cup {"global"}
Users == {"user1", "user2"}
FuncNames == {"f", "g"}

Config(lim) == IF lim = "global" THEN rate_limiter ELSE limits[lim]

\* RateLimiter.__init__: self.refill_rate = requests_per_minute / 60.0 tokens per
\* second, which is requests_per_minute scaled tokens per millisecond
RefillRate(lim) == Config(lim).requests_per_minute

\* key = f"{api}:{user_id}"
ApiKey(api, user) == <<api, user>>

KeysOf(lim) == IF lim = "global" THEN {<<f>> : f \in FuncNames}
               ELSE {ApiKey(lim, u) : u \in Users}

----------------------------------------------------------------------------
(* TokenBucket *)

\* TokenBucket.__init__ at clock reading t
NewTokenBucket(capacity, refill_rate, t) ==
    [capacity |-> capacity, tokens |-> capacity * TokenScale,
     refill_rate |-> refill_rate, last_refill |-> t]

\* variant: no min() with the capacity
RefillNoClamp(b, t) ==
    [b EXCEPT !.tokens = b.tokens + (t - b.last_refill) * b.refill_rate,
              !.last_refill = t]

\* variant: the elapsed time truncated to whole seconds
RefillWholeSeconds(b, t) ==
    LET elapsed == ((t - b.last_refill) \div ClockResolution) * ClockResolution
    IN  [b EXCEPT !.tokens = Min(b.capacity * TokenScale, b.tokens + elapsed * b.refill_rate),
                  !.last_refill = t]

\* variant: only whole tokens are credited, and the stamp still moves
RefillWholeTokens(b, t) ==
    LET elapsed == t - b.last_refill
        tokens_to_add == ((elapsed * b.refill_rate) \div TokenScale) * TokenScale
    IN  [b EXCEPT !.tokens = Min(b.capacity * TokenScale, b.tokens + tokens_to_add),
                  !.last_refill = t]

\* TokenBucket._refill at clock reading t
Refill(b, t) ==
    LET elapsed == t - b.last_refill
        tokens_to_add == elapsed * b.refill_rate
    IN  [b EXCEPT !.tokens = Min(b.capacity * TokenScale, b.tokens + tokens_to_add),
                  !.last_refill = t]

\* variant: the test dropped
EnoughAlways(have, n) == TRUE

\* TokenBucket.consume: the test `self.tokens >= tokens`
Enough(have, n) == have >= n * TokenScale

\* variant: the tokens are taken on the rejected branch too, floored at 0
TakeOnReject(b, n, ok) ==
    [b EXCEPT !.tokens = IF b.tokens >= n * TokenScale THEN b.tokens - n * TokenScale ELSE 0]

\* TokenBucket.consume: `self.tokens -= tokens` on the admitted branch only
Take(b, n, ok) == IF ok THEN [b EXCEPT !.tokens = b.tokens - n * TokenScale] ELSE b

\* TokenBucket.consume(n) at clock reading t: the value returned and the bucket left
Consume(b, n, t) ==
    LET r  == Refill(b, t)
        ok == Enough(r.tokens, n)
    IN  [ok |-> ok, bucket |-> Take(r, n, ok)]

----------------------------------------------------------------------------
(* RateLimiter *)

\* RateLimiter.get_bucket: the buckets map after the lookup
GetBucket(lim, bs, key, t) ==
    IF key \notin DOMAIN bs
    THEN [k \in DOMAIN bs \cup {key} |->
            IF k = key THEN NewTokenBucket(Config(lim).burst, RefillRate(lim), t) ELSE bs[k]]
    ELSE bs

\* variant: every bucket of the limiter is refilled on each call
CheckRateLimitOfSweep(lim, bs, key, n, t) ==
    LET got   == GetBucket(lim, bs, key, t)
        swept == [k \in DOMAIN got |-> Refill(got[k], t)]
        c     == Consume(swept[key], n, t)
    IN  [ok |-> c.ok, buckets |-> [swept EXCEPT ![key] = c.bucket]]

\* RateLimiter.check_rate_limit(key, n) at clock reading t
CheckRateLimitOf(lim, bs, key, n, t) ==
    LET got == GetBucket(lim, bs, key, t)
        c   == Consume(got[key], n, t)
    IN  [ok |-> c.ok, buckets |-> [got EXCEPT ![key] = c.bucket]]

\* a rate_limited decorator given no key_func
NoKeyFunc == "None"

\* variant: the key_func ignored
DecoratorKeyByName(func, key_func) == <<func>>

\* rate_limited: `key = key_func(*args, **kwargs) if key_func else func.__name__`;
\* key_func is NoKeyFunc or the string the key function returns for the arguments
DecoratorKey(func, key_func) == IF key_func = NoKeyFunc THEN <<func>> ELSE <<key_func>>

\* rate_limited: `raise Exception(f"Rate limit exceeded for {key}")` when
\* check_rate_limit returned false, `return func(*args, **kwargs)` otherwise
Wrapped(ok) == IF ok THEN "func_called" ELSE "raises_exception"

\* variant: self.buckets.clear()
ResetOfClear(bs, key) == IF key \in DOMAIN bs THEN [k \in {} |-> 0] ELSE bs

\* RateLimiter.reset(key): the buckets map after the call
ResetOf(bs, key) ==
    IF key \in DOMAIN bs THEN [k \in DOMAIN bs \ {key} |-> bs[k]] ELSE bs

\* variant: an API with no limiter is refused
NoLimitDefinedDenies == FALSE

\* APIRateLimiter.check_api_limit: `return True  # No limit defined`
NoLimitDefined == TRUE

\* APIRateLimiter.wait_if_limited: the test `bucket.tokens < 1`
Limited(tokens) == tokens < TokenScale

\* APIRateLimiter.wait_if_limited: (1 - bucket.tokens) / bucket.refill_rate seconds,
\* as the fraction <<numerator, denominator>> of clock readings
WaitTime(bucket) == <<TokenScale - bucket.tokens, bucket.refill_rate>>

NoWait == <<0, 1>>

\* APIRateLimiter.wait_if_limited(api, user_id) for a configured api at clock
\* reading t: whether a wait is returned, the wait, and the buckets of the limiter
\* as the call leaves them
WaitIfLimitedOf(api, bs, user_id, t) ==
    LET key    == ApiKey(api, user_id)
        got    == GetBucket(api, bs, key, t)
        bucket == got[key]
    IN  IF Limited(bucket.tokens)
        THEN [limited |-> TRUE, wait_time |-> WaitTime(bucket), buckets |-> got]
        ELSE [limited |-> FALSE, wait_time |-> NoWait, buckets |-> got]

----------------------------------------------------------------------------
(* Amplitude cost and concurrency tracking (APIRateLimiter) *)

HourSeconds == 3600
HourlyBudget == 12000
MaxConcurrent == 5

EmptyDict == [k \in {} |-> 0]

RECURSIVE Str(_)
\* str(now): the decimal text of a clock reading, most significant digit first
Str(t) == IF t < 10 THEN <<t>> ELSE Append(Str(t \div 10), t % 10)

RECURSIVE Float(_)
\* float(ts): the clock reading a decimal text denotes
Float(s) == IF Len(s) = 0 THEN 0
            ELSE Float(SubSeq(s, 1, Len(s) - 1)) * 10 + s[Len(s)]

RECURSIVE SumValues(_)
\* sum(user_costs.values())
SumValues(d) ==
    IF DOMAIN d = {} THEN 0
    ELSE LET k == CHOOSE x \in DOMAIN d : TRUE
         IN  d[k] + SumValues([x \in DOMAIN d \ {k} |-> d[x]])

\* dict.setdefault-style initialisation: `if user_id not in d: d[user_id] = v`
WithDefault(d, user, v) ==
    IF user \in DOMAIN d THEN d
    ELSE [u \in DOMAIN d \cup {user} |-> IF u = user THEN v ELSE d[u]]

\* d[key] = v on a dict
Put(d, key, v) == [k \in DOMAIN d \cup {key} |-> IF k = key THEN v ELSE d[k]]

\* variant: `<=` for `<`
ExpiredAtBoundary(ts, hour_ago) == Float(ts) <= hour_ago

\* check_amplitude_limits: the test `float(ts) < hour_ago` selecting old_timestamps
Expired(ts, hour_ago) == Float(ts) < hour_ago

\* check_amplitude_limits: user_costs after `del user_costs[ts]` for every old timestamp
Prune(user_costs, t) ==
    LET hour_ago == t - HourSeconds * ClockResolution
    IN  [ts \in {k \in DOMAIN user_costs : ~Expired(k, hour_ago)} |-> user_costs[ts]]

\* variant: the recorded samples left out of the sum
OverBudgetIgnoresHistory(current_hourly_cost, cost) == cost > HourlyBudget
\* variant: `>=` for `>`
OverBudgetAtLimit(current_hourly_cost, cost) == current_hourly_cost + cost >= HourlyBudget

\* check_amplitude_limits: `current_hourly_cost + cost > 12000`
OverBudget(current_hourly_cost, cost) == current_hourly_cost + cost > HourlyBudget

\* variant: `>` for `>=`
AtConcurrentLimitLate(active) == active > MaxConcurrent

\* check_amplitude_limits: `self.amplitude_concurrent[user_id] >= 5`
AtConcurrentLimit(active) == active >= MaxConcurrent

\* variant: the old samples of every user are deleted, not only those of user_id
CheckAmplitudeLimitsPruneAll(costs, conc, user_id, cost, t) ==
    LET costs1 == WithDefault(costs, user_id, EmptyDict)
        conc1  == WithDefault(conc, user_id, 0)
        costs2 == [u \in DOMAIN costs1 |-> Prune(costs1[u], t)]
        current_hourly_cost == SumValues(costs2[user_id])
    IN  [ok |-> IF OverBudget(current_hourly_cost, cost) THEN FALSE
                ELSE IF AtConcurrentLimit(conc1[user_id]) THEN FALSE
                ELSE TRUE,
         costs |-> costs2, conc |-> conc1]

\* check_amplitude_limits(user_id, cost) with time.time() = t: the value returned
\* and the two dicts as the call leaves them
CheckAmplitudeLimits(costs, conc, user_id, cost, t) ==
    LET costs1 == WithDefault(costs, user_id, EmptyDict)
        conc1  == WithDefault(conc, user_id, 0)
        user_costs == Prune(costs1[user_id], t)
        costs2 == [costs1 EXCEPT ![user_id] = user_costs]
        current_hourly_cost == SumValues(user_costs)
    IN  [ok |-> IF OverBudget(current_hourly_cost, cost) THEN FALSE
                ELSE IF AtConcurrentLimit(conc1[user_id]) THEN FALSE
                ELSE TRUE,
         costs |-> costs2, conc |-> conc1]

\* start_amplitude_request(user_id, cost): check_amplitude_limits reads the clock
\* as t1, and the admitted branch reads it again as t2
StartAmplitudeRequest(costs, conc, user_id, cost, t1, t2) ==
    LET chk == CheckAmplitudeLimits(costs, conc, user_id, cost, t1)
    IN  IF ~chk.ok THEN [ok |-> FALSE, costs |-> chk.costs, conc |-> chk.conc]
        ELSE [ok |-> TRUE,
              costs |-> [chk.costs EXCEPT ![user_id] = Put(@, Str(t2), cost)],
              conc  |-> [chk.conc EXCEPT ![user_id] = @ + 1]]

\* variant: `> 1` for `> 0`
EndAmplitudeRequestOffByOne(conc, user_id) ==
    IF user_id \in DOMAIN conc /\ conc[user_id] > 1
    THEN [conc EXCEPT ![user_id] = @ - 1]
    ELSE conc

\* variant: the counter of a user never seen is initialised first
EndAmplitudeRequestDefaults(conc, user_id) ==
    LET conc1 == WithDefault(conc, user_id, 0)
    IN  IF conc1[user_id] > 0 THEN [conc1 EXCEPT ![user_id] = @ - 1] ELSE conc1

\* end_amplitude_request(user_id)
EndAmplitudeRequest(conc, user_id) ==
    IF user_id \in DOMAIN conc /\ conc[user_id] > 0
    THEN [conc EXCEPT ![user_id] = @ - 1]
    ELSE conc

----------------------------------------------------------------------------
(* Dates of a query: datetime.strptime(s, "%Y%m%d") and AmplitudeClient._calculate_days *)

\* A date string is the sequence of its characters: a digit is its value, and
\* Hyphen stands for any character that is not a digit.
Hyphen == 0 - 1

IsDigit(c) == c \in 0 .. 9

Pair(s, i) == 10 * s[i] + s[i + 1]

TwoDigits(s, i) == i + 1 <= Len(s) /\ IsDigit(s[i]) /\ IsDigit(s[i + 1])

OneDigit(s, i) == i <= Len(s) /\ s[i] \in 1 .. 9

\* the matches of %m at position i, `1[0-2]|0[1-9]|[1-9]`, in the order the
\* regular expression tries them: <<value, position after the match>>
MonthMatches(s, i) ==
    (IF TwoDigits(s, i) /\ Pair(s, i) \in 1 .. 12 THEN << <<Pair(s, i), i + 2>> >> ELSE << >>)
    \o (IF OneDigit(s, i) THEN << <<s[i], i + 1>> >> ELSE << >>)

\* the matches of %d at position i, `3[0-1]|[1-2]\d|0[1-9]|[1-9]`, in that order
DayMatches(s, i) ==
    (IF TwoDigits(s, i) /\ Pair(s, i) \in 1 .. 31 THEN << <<Pair(s, i), i + 2>> >> ELSE << >>)
    \o (IF OneDigit(s, i) THEN << <<s[i], i + 1>> >> ELSE << >>)

IsLeap(y) == (y % 4 = 0 /\ y % 100 # 0) \/ y % 400 = 0

DaysInMonth(y, m) ==
    IF m = 2 THEN (IF IsLeap(y) THEN 29 ELSE 28)
    ELSE IF m \in {4, 6, 9, 11} THEN 30 ELSE 31

RECURSIVE DaysBeforeMonth(_, _)
DaysBeforeMonth(y, m) == IF m = 1 THEN 0 ELSE DaysBeforeMonth(y, m - 1) + DaysInMonth(y, m - 1)

\* date.toordinal(): the number of days from 0001-01-01, itself day 1
ToOrdinal(y, m, d) ==
    365 * (y - 1) + ((y - 1) \div 4) - ((y - 1) \div 100) + ((y - 1) \div 400)
    + DaysBeforeMonth(y, m) + d

NoDate == [ok |-> FALSE, ordinal |-> 0]

\* datetime.strptime(s, "%Y%m%d"): the regular expression \d\d\d\d, %m, %d is
\* matched at the start of s with backtracking, in the order of its alternatives;
\* characters left over, year 0 or a day the month does not have raise ValueError
\* (ok = FALSE)
Strptime(s) ==
    IF ~(4 <= Len(s) /\ \A i \in 1 .. 4 : IsDigit(s[i])) THEN NoDate
    ELSE LET y  == 1000 * s[1] + 100 * s[2] + 10 * s[3] + s[4]
             ms == MonthMatches(s, 5)
             usable == {i \in 1 .. Len(ms) : Len(DayMatches(s, ms[i][2])) > 0}
         IN  IF usable = {} THEN NoDate
             ELSE LET first == CHOOSE i \in usable : \A j \in usable : i <= j
                      m == ms[first][1]
                      dm == DayMatches(s, ms[first][2])[1]
                      d == dm[1]
                  IN  IF dm[2] # Len(s) + 1 \/ y < 1 \/ d > DaysInMonth(y, m) THEN NoDate
                      ELSE [ok |-> TRUE, ordinal |-> ToOrdinal(y, m, d)]

\* variant: the end date not counted
CalculateDaysExclusive(start_date, end_date) ==
    LET start == Strptime(start_date)
        end   == Strptime(end_date)
    IN  IF start.ok /\ end.ok THEN end.ordinal - start.ordinal ELSE 1

\* AmplitudeClient._calculate_days(start_date, end_date)
CalculateDays(start_date, end_date) ==
    LET start == Strptime(start_date)
        end   == Strptime(end_date)
    IN  IF start.ok /\ end.ok THEN (end.ordinal - start.ordinal) + 1 ELSE 1

\* validate_date_format(start_date, end_date): TRUE when it returns None
ValidateDateFormat(start_date, end_date) == Strptime(start_date).ok /\ Strptime(end_date).ok

----------------------------------------------------------------------------
(* The cost of a query: calculate_amplitude_cost and the query methods of AmplitudeClient *)

\* variant: the query type cost added, not multiplied
CalculateAmplitudeCostAdded(days, conditions, query_type_cost) ==
    days * conditions + query_type_cost

\* APIRateLimiter.calculate_amplitude_cost(days, conditions, query_type_cost)
CalculateAmplitudeCost(days, conditions, query_type_cost) ==
    days * conditions * query_type_cost

\* AmplitudeClient.calculate_cost(days, conditions, query_type_cost)
CalculateCost(days, conditions, query_type_cost) ==
    CalculateAmplitudeCost(days, conditions, query_type_cost)

\* An Optional argument: None, or a list, a dict or a string (the sequence of its
\* characters) in val
None == [some |-> FALSE, val |-> << >>]
Some(v) == [some |-> TRUE, val |-> v]

\* `if x` for an Optional list, dict or string
Truthy(x) == x.some /\ DOMAIN x.val # {}

\* the arguments of a query method; a method ignores the ones it does not take
Query(method, start_date, end_date, events, segments, group_by) ==
    [method |-> method, start_date |-> start_date, end_date |-> end_date,
     events |-> events, segments |-> segments, group_by |-> group_by,
     args |-> << >>]

NoQuery == Query("none", << >>, << >>, << >>, None, None)

\* `group_cost = 4 if group_by else 0`
GroupCost(group_by) == IF Truthy(group_by) THEN 4 ELSE 0

\* `conditions = len(segments) if segments else 1`
Conditions(segments) == IF Truthy(segments) THEN Len(segments.val) ELSE 1

\* get_user_counts: `conditions = 1; if segment_definitions: conditions =
\* len(segment_definitions.get("filters", [{}]))`
UserCountsConditions(segment_definitions) ==
    IF Truthy(segment_definitions)
    THEN (IF "filters" \in DOMAIN segment_definitions.val
          THEN Len(segment_definitions.val["filters"]) ELSE 1)
    ELSE 1

CostedMethods == {"get_event_segmentation", "get_funnel_analysis",
                  "get_retention_analysis", "get_user_counts"}
FixedCostMethods == {"get_realtime_active_users", "get_all_events", "get_events_list"}

\* the arguments a query method passes to calculate_cost
CostArgs(q) ==
    LET days == CalculateDays(q.start_date, q.end_date)
    IN  CASE q.method = "get_event_segmentation" ->
                <<days, Conditions(q.segments), Len(q.events) * 1 + GroupCost(q.group_by)>>
          [] q.method = "get_funnel_analysis" ->
                <<days, Conditions(q.segments), Len(q.events) * 2 + GroupCost(q.group_by)>>
          [] q.method = "get_retention_analysis" -> <<days, 1, 8>>
          [] q.method = "get_user_counts" ->
                <<days, UserCountsConditions(q.segments), 1 + GroupCost(q.group_by)>>

\* the cost a query method hands to _make_request
QueryCost(q) ==
    IF q.method \in FixedCostMethods THEN 1
    ELSE LET a == CostArgs(q) IN CalculateCost(a[1], a[2], a[3])

\* get_event_segmentation: `if len(events) == 1 ... elif len(events) == 2 ... else:
\* raise ValueError`, after the cost is computed and before _make_request
RaisesValueError(q) == q.method = "get_event_segmentation" /\ Len(q.events) \notin {1, 2}

\* validate_events_list(events, min_events, max_events): TRUE when it returns None
ValidateEventsList(events, min_events, max_events) ==
    Len(events) >= min_events /\ Len(events) <= max_events

----------------------------------------------------------------------------
(* The calls a behaviour makes, and what they returned *)

NoKey == <<>>

\* op: the call; key: its bucket key or <<user_id>>; n: its tokens or cost argument;
\* ok: the admission decision; out: what _make_request returned; ends: the number
\* of end_amplitude_request calls it made; freed: the cost of the samples it deleted;
\* wait: the wait wait_if_limited returned; query: the arguments of the query
\* method or cost function called
Call(op, key, n, ok, out, ends, freed) ==
    [op |-> op, key |-> key, n |-> n, ok |-> ok, out |-> out, ends |-> ends,
     freed |-> freed, wait |-> NoWait, query |-> NoQuery]

NoCall == Call("init", NoKey, 0, TRUE, "none", 0, 0)

CostChoices == {1, HourlyBudget}

\* the smallest number of clock readings after which an empty bucket holds a token
Period(lim) == (TokenScale + RefillRate(lim) - 1) \div RefillRate(lim)

BucketDeltas == IF focus \in Limiters THEN {Period(focus) - 1, Period(focus), 2 * Period(focus)}
                ELSE {1}
AdmitDeltas == {HourSeconds * ClockResolution, HourSeconds * ClockResolution + 1}

Count(d, k) == IF k \in DOMAIN d THEN d[k] ELSE 0

----------------------------------------------------------------------------
(* Actions *)

\* the clock advances by d readings between two calls
Tick(d) ==
    /\ ticks < MaxTicks
    /\ now' = now + d
    /\ ticks' = ticks + 1
    /\ last' = Call("tick", NoKey, d, TRUE, "none", 0, 0)
    /\ UNCHANGED <<focus, buckets, amplitude_costs, amplitude_concurrent, inflight, hist>>

\* the wall clock is set back by d readings between two calls (time.time() is not
\* monotonic), never before the reading the behaviour started at
ClockSteppedBack(d) ==
    /\ now - d >= 0
    /\ now' = now - d
    /\ last' = Call("clock_stepped_back", NoKey, d, TRUE, "none", 0, 0)
    /\ UNCHANGED <<focus, buckets, amplitude_costs, amplitude_concurrent, inflight, ticks,
                   hist>>

Note(key, ok) ==
    LET h == IF key \in DOMAIN hist THEN hist[key]
             ELSE [calls |-> 0, admitted |-> 0]
    IN  Put(hist, key, [h EXCEPT !.calls = @ + 1,
                                 !.admitted = IF ok THEN @ + 1 ELSE @])

\* RateLimiter.check_rate_limit(key, n) on the module-level rate_limiter
CheckRateLimit(key, n) ==
    /\ focus = "global"
    /\ LET r == CheckRateLimitOf("global", buckets["global"], key, n, now)
       IN  /\ buckets' = [buckets EXCEPT !["global"] = r.buckets]
           /\ last' = Call("check_rate_limit", key, n, r.ok, "none", 0, 0)
           /\ hist' = Note(key, r.ok)
    /\ UNCHANGED <<now, focus, amplitude_costs, amplitude_concurrent, inflight, ticks>>

\* a call of the function func wrapped by rate_limited(key_func, tokens = n), through
\* the sync or the async wrapper (the two differ only in awaiting func)
RateLimited(func, key_func, n) ==
    /\ focus = "global"
    /\ LET key == DecoratorKey(func, key_func)
           r   == CheckRateLimitOf("global", buckets["global"], key, n, now)
       IN  /\ buckets' = [buckets EXCEPT !["global"] = r.buckets]
           /\ last' = Call("rate_limited", <<func, key_func>>, n, r.ok, Wrapped(r.ok), 0, 0)
           /\ hist' = Note(key, r.ok)
    /\ UNCHANGED <<now, focus, amplitude_costs, amplitude_concurrent, inflight, ticks>>

\* APIRateLimiter.check_api_limit(api, user_id)
CheckApiLimit(api, user_id) ==
    /\ focus = api
    /\ IF api \in DOMAIN limits
       THEN LET key == ApiKey(api, user_id)
                r   == CheckRateLimitOf(api, buckets[api], key, 1, now)
            IN  /\ Count([k \in DOMAIN hist |-> hist[k].calls], key) < limits[api].burst + MaxExtra
                /\ buckets' = [buckets EXCEPT ![api] = r.buckets]
                /\ last' = Call("check_api_limit", key, 1, r.ok, "none", 0, 0)
                /\ hist' = Note(key, r.ok)
       ELSE /\ last' = Call("check_api_limit", ApiKey(api, user_id), 1, NoLimitDefined,
                            "none", 0, 0)
            /\ hist' = Note(ApiKey(api, user_id), NoLimitDefined)
            /\ UNCHANGED buckets
    /\ UNCHANGED <<now, focus, amplitude_costs, amplitude_concurrent, inflight, ticks>>

\* APIRateLimiter.wait_if_limited(api, user_id)
WaitIfLimited(api, user_id) ==
    /\ focus = api
    /\ IF api \in DOMAIN limits
       THEN LET r == WaitIfLimitedOf(api, buckets[api], user_id, now)
            IN  /\ buckets' = [buckets EXCEPT ![api] = r.buckets]
                /\ last' = [Call("wait_if_limited", ApiKey(api, user_id), 0, ~r.limited,
                                  IF r.limited THEN "wait_time" ELSE "None", 0, 0)
                               EXCEPT !.wait = r.wait_time]
       ELSE /\ last' = Call("wait_if_limited", ApiKey(api, user_id), 0, TRUE, "None", 0, 0)
            /\ UNCHANGED buckets
    /\ UNCHANGED <<now, focus, amplitude_costs, amplitude_concurrent, inflight, ticks, hist>>

\* RateLimiter.reset(key) on the limiter lim
Reset(lim, key) ==
    /\ focus = lim
    /\ buckets' = [buckets EXCEPT ![lim] = ResetOf(@, key)]
    /\ last' = Call("reset", key, 0, TRUE, "none", 0, 0)
    /\ UNCHANGED <<now, focus, amplitude_costs, amplitude_concurrent, inflight, ticks, hist>>

\* the cost of the samples of user_id that a check_amplitude_limits call at clock
\* reading t deletes
Freed(user_id, t) ==
    IF user_id \in DOMAIN amplitude_costs
    THEN SumValues(amplitude_costs[user_id]) - SumValues(Prune(amplitude_costs[user_id], t))
    ELSE 0

\* APIRateLimiter.start_amplitude_request(user_id, cost); the clock advances by
\* drift readings between the two time.time() calls
StartRequestOf(user_id, cost, drift) ==
    /\ drift > 0 => ticks < MaxTicks
    /\ LET r == StartAmplitudeRequest(amplitude_costs, amplitude_concurrent,
                                      user_id, cost, now, now + drift)
       IN  /\ amplitude_costs' = r.costs
           /\ amplitude_concurrent' = r.conc
           /\ now' = IF r.ok THEN now + drift ELSE now
           /\ ticks' = IF r.ok /\ drift > 0 THEN ticks + 1 ELSE ticks
           /\ last' = Call("start_amplitude_request", <<user_id>>, cost, r.ok, "none", 0,
                           Freed(user_id, now))
    /\ UNCHANGED <<focus, buckets, inflight>>

StartRequest(user_id, cost, drift) ==
    /\ StartRequestOf(user_id, cost, drift)
    /\ UNCHANGED hist

\* the requests start_amplitude_request admitted for a user so far: the clock reading
\* of each admission and its cost
Ledger(key) == IF key \in DOMAIN hist THEN hist[key].ledger ELSE << >>

\* start_amplitude_request(user_id, cost) with the admitted request written down
StartRequestRecorded(user_id, cost) ==
    /\ StartRequestOf(user_id, cost, 0)
    /\ LET ok == StartAmplitudeRequest(amplitude_costs, amplitude_concurrent,
                                       user_id, cost, now, now).ok
           h  == IF <<user_id>> \in DOMAIN hist THEN hist[<<user_id>>]
                 ELSE [calls |-> 0, admitted |-> 0, ledger |-> << >>]
       IN  hist' = Put(hist, <<user_id>>,
                       [calls |-> h.calls + 1,
                        admitted |-> IF ok THEN h.admitted + 1 ELSE h.admitted,
                        ledger |-> IF ok THEN Append(h.ledger, [at |-> now, cost |-> cost])
                                   ELSE h.ledger])

\* APIRateLimiter.check_amplitude_limits(user_id, cost) called on its own
CheckLimits(user_id, cost) ==
    /\ LET r == CheckAmplitudeLimits(amplitude_costs, amplitude_concurrent, user_id, cost, now)
       IN  /\ amplitude_costs' = r.costs
           /\ amplitude_concurrent' = r.conc
           /\ last' = Call("check_amplitude_limits", <<user_id>>, cost, r.ok, "none", 0,
                           Freed(user_id, now))
    /\ UNCHANGED <<now, focus, buckets, inflight, ticks, hist>>

\* APIRateLimiter.end_amplitude_request(user_id)
EndRequest(user_id) ==
    /\ amplitude_concurrent' = EndAmplitudeRequest(amplitude_concurrent, user_id)
    /\ last' = Call("end_amplitude_request", <<user_id>>, 0, TRUE, "none", 0, 0)
    /\ UNCHANGED <<now, focus, buckets, amplitude_costs, inflight, ticks, hist>>

----------------------------------------------------------------------------
(* AmplitudeClient._make_request *)

\* how the awaited self.client.get(url) and the handling of its response can end
HttpOutcomes == {"200", "200_invalid_json", "429", "401", "other_status",
                 "timeout", "exception", "cancelled"}

\* what _make_request returns (or raises) for each way the try block can end
Result(path) ==
    CASE path = "200"              -> "response_json"
      [] path = "429"              -> "error_rate_limit_429"
      [] path = "401"              -> "error_authentication"
      [] path = "other_status"     -> "error_api_request_failed"
      [] path = "timeout"          -> "error_request_timeout"
      [] path = "200_invalid_json" -> "error_request_failed"
      [] path = "exception"        -> "error_request_failed"
      [] path = "build_exception"  -> "error_request_failed"
      [] path = "cancelled"        -> "raises_cancelled"
      [] path = "denied"           -> "error_rate_limit_exceeded"

\* variant: the release placed in the handlers, the timeout handler missed
FinallyNotOnTimeout(path) == path # "timeout"

\* the `finally:` clause of _make_request runs whichever way the try block ends
Finally(path) == TRUE

\* variant: the admission check moved inside the try block
InTryFromStart(path) == TRUE

\* the `try:` of _make_request opens after the return of the denied branch
InTry(path) == path # "denied"

\* whether _make_request calls end_amplitude_request on its way out
Released(path) == InTry(path) /\ Finally(path)

InFlight == LET RECURSIVE Total(_)
                Total(S) == IF S = {} THEN 0
                            ELSE LET u == CHOOSE x \in S : TRUE
                                 IN  inflight[u] + Total(S \ {u})
            IN  Total(Users)

\* _make_request up to its first suspension: start_amplitude_request, then the
\* URL is built (build = FALSE: building raises) and self.client.get is awaited
MakeRequestFrom(q, user_id, cost, drift, build) ==
    /\ InFlight < NumCoroutines
    /\ drift > 0 => ticks < MaxTicks
    /\ LET r == StartAmplitudeRequest(amplitude_costs, amplitude_concurrent,
                                      user_id, cost, now, now + drift)
       IN  /\ amplitude_costs' = r.costs
           /\ now' = IF r.ok THEN now + drift ELSE now
           /\ ticks' = IF r.ok /\ drift > 0 THEN ticks + 1 ELSE ticks
           /\ IF ~r.ok
              THEN /\ amplitude_concurrent' =
                          IF Released("denied")
                          THEN EndAmplitudeRequest(r.conc, user_id) ELSE r.conc
                   /\ last' = [Call("_make_request", <<user_id>>, cost, FALSE,
                                    Result("denied"),
                                    IF Released("denied") THEN 1 ELSE 0, 0)
                                  EXCEPT !.query = q]
                   /\ UNCHANGED inflight
              ELSE IF ~build
              THEN /\ amplitude_concurrent' =
                          IF Released("build_exception")
                          THEN EndAmplitudeRequest(r.conc, user_id) ELSE r.conc
                   /\ last' = [Call("_make_request", <<user_id>>, cost, TRUE,
                                    Result("build_exception"),
                                    IF Released("build_exception") THEN 1 ELSE 0, 0)
                                  EXCEPT !.query = q]
                   /\ UNCHANGED inflight
              ELSE /\ amplitude_concurrent' = r.conc
                   /\ inflight' = [inflight EXCEPT ![user_id] = @ + 1]
                   /\ last' = [Call("await_get", <<user_id>>, cost, TRUE, "pending", 0, 0)
                                  EXCEPT !.query = q]
    /\ UNCHANGED <<focus, buckets, hist>>

\* _make_request called with a cost the caller chose
MakeRequest(user_id, cost, drift, build) ==
    MakeRequestFrom(NoQuery, user_id, cost, drift, build)

\* a query method of AmplitudeClient: the cost is computed from the arguments and
\* handed to _make_request
QueryMethod(q, user_id) ==
    LET called == [q EXCEPT !.args = IF q.method \in CostedMethods THEN CostArgs(q)
                                     ELSE << >>]
    IN  IF RaisesValueError(q)
        THEN /\ last' = [Call(q.method, <<user_id>>, QueryCost(q), FALSE,
                              "raises_value_error", 0, 0) EXCEPT !.query = called]
             /\ UNCHANGED <<now, focus, buckets, amplitude_costs, amplitude_concurrent,
                            inflight, ticks, hist>>
        ELSE MakeRequestFrom(called, user_id, QueryCost(q), 0, TRUE)

\* calculate_amplitude_cost called on its own
CalculateAmplitudeCostCall(days, conditions, query_type_cost) ==
    /\ last' = [Call("calculate_amplitude_cost", NoKey,
                     CalculateAmplitudeCost(days, conditions, query_type_cost),
                     TRUE, "none", 0, 0)
                   EXCEPT !.query = [NoQuery EXCEPT !.method = "calculate_amplitude_cost",
                                                    !.args = <<days, conditions,
                                                               query_type_cost>>]]
    /\ UNCHANGED <<now, focus, buckets, amplitude_costs, amplitude_concurrent, inflight,
                   ticks, hist>>

\* _calculate_days called on its own
CalculateDaysCall(start_date, end_date) ==
    /\ last' = [Call("_calculate_days", NoKey, CalculateDays(start_date, end_date),
                     TRUE, "none", 0, 0)
                   EXCEPT !.query = [NoQuery EXCEPT !.method = "_calculate_days",
                                                    !.start_date = start_date,
                                                    !.end_date = end_date]]
    /\ UNCHANGED <<now, focus, buckets, amplitude_costs, amplitude_concurrent, inflight,
                   ticks, hist>>

\* a _make_request coroutine of user_id resumed from `await self.client.get(url)`
\* until it returns
HttpComplete(user_id, path) ==
    /\ inflight[user_id] > 0
    /\ amplitude_concurrent' =
           IF Released(path) THEN EndAmplitudeRequest(amplitude_concurrent, user_id)
           ELSE amplitude_concurrent
    /\ inflight' = [inflight EXCEPT ![user_id] = @ - 1]
    /\ last' = Call("_make_request", <<user_id>>, 0, TRUE, Result(path),
                    IF Released(path) THEN 1 ELSE 0, 0)
    /\ UNCHANGED <<now, focus, buckets, amplitude_costs, ticks, hist>>

----------------------------------------------------------------------------
(* The Notion, Slack and GitHub clients *)

ToolAPIs == {"notion", "slack", "github"}

\* how the HTTP request of a client method can end
ToolOutcomes == {"200", "error_status", "network_error"}

\* what the client method returns or raises: GitHubClient.get turns every failure
\* into an error dict; the Slack and Notion methods call response.raise_for_status()
\* and catch nothing
ToolResult(api, path) ==
    IF path = "200" THEN "response_json"
    ELSE IF api = "github" THEN "error_document"
    ELSE IF path = "error_status" THEN "raises_http_status_error"
    ELSE "raises_transport_error"

\* GitHubClient.get, SlackClient.post_message, NotionClient.get_page: the request
\* is built from the arguments and sent; no limiter is consulted and none changes
ToolRequest(api, path) ==
    /\ focus = api
    /\ last' = Call("http_request", <<api>>, 0, TRUE, ToolResult(api, path), 0, 0)
    /\ UNCHANGED <<now, focus, buckets, amplitude_costs, amplitude_concurrent, inflight,
                   ticks, hist>>

----------------------------------------------------------------------------
(* Specifications *)

InitState ==
    /\ now = 0
    /\ buckets = [l \in Limiters |-> EmptyDict]
    /\ amplitude_costs = EmptyDict
    /\ amplitude_concurrent = EmptyDict
    /\ inflight = [u \in Users |-> 0]
    /\ last = NoCall
    /\ ticks = 0
    /\ hist = EmptyDict

\* The admission interface of APIRateLimiter, called in any order
Init == InitState /\ focus = "amplitude"

Next ==
    \/ \E u \in Users, c \in CostChoices, drift \in {0, 1} : StartRequest(u, c, drift)
    \/ \E u \in Users : EndRequest(u)
    \/ \E d \in AdmitDeltas : Tick(d)

Spec == Init /\ [][Next]_vars

\* The three calls of the Amplitude tracker made for two users in any order
NextUsers ==
    \/ \E u \in Users, c \in CostChoices : StartRequest(u, c, 0)
    \/ \E u \in Users, c \in CostChoices : CheckLimits(u, c)
    \/ \E u \in Users : EndRequest(u)
    \/ \E d \in AdmitDeltas : Tick(d)

SpecUsers == Init /\ [][NextUsers]_vars

\* Overlapping _make_request coroutines, the only callers of the Amplitude tracker
NextClient ==
    \/ \E u \in Users, c \in CostChoices, drift \in {0}, build \in BOOLEAN :
          MakeRequest(u, c, drift, build)
    \/ \E u \in Users, path \in HttpOutcomes : HttpComplete(u, path)
    \/ \E d \in AdmitDeltas : Tick(d)

SpecClient == Init /\ [][NextClient]_vars

\* The coroutines together with end_amplitude_request calls that no coroutine
\* owes, within one clock reading
NextSurplus ==
    \/ \E u \in Users, c \in CostChoices, drift \in {0}, build \in BOOLEAN :
          MakeRequest(u, c, drift, build)
    \/ \E u \in Users, path \in HttpOutcomes : HttpComplete(u, path)
    \/ \E u \in Users : EndRequest(u)

SpecSurplus == Init /\ [][NextSurplus]_vars

\* The client methods of one API family next to check_api_limit calls for it
InitTools == InitState /\ focus \in ToolAPIs

\* One RateLimiter instance per behaviour, driven through its public calls
InitBucket == InitState /\ focus \in Limiters \cup {"unknown"}

Calls(key) == IF key \in DOMAIN hist THEN hist[key].calls ELSE 0

TotalCalls == LET RECURSIVE Total(_)
                  Total(S) == IF S = {} THEN 0
                              ELSE LET k == CHOOSE x \in S : TRUE
                                   IN  hist[k].calls + Total(S \ {k})
              IN  Total(DOMAIN hist)

NextBucket ==
    \/ /\ TotalCalls < MaxCalls
       /\ \E key \in KeysOf("global"), n \in 1 .. MaxTokens : CheckRateLimit(key, n)
    \/ /\ TotalCalls < MaxCalls
       /\ \E api \in APIs \cup {"unknown"}, u \in Users : CheckApiLimit(api, u)
    \/ \E d \in BucketDeltas : Tick(d)

SpecBucket == InitBucket /\ [][NextBucket]_vars

\* One limiter of APIRateLimiter per behaviour, driven through check_api_limit,
\* wait_if_limited and the reset of its RateLimiter
InitApi == InitState /\ focus \in APIs \cup {"unknown"}

NextApi ==
    \/ /\ TotalCalls < MaxCalls
       /\ \E api \in APIs \cup {"unknown"}, u \in Users : CheckApiLimit(api, u)
    \/ \E api \in APIs \cup {"unknown"}, u \in Users : WaitIfLimited(api, u)
    \/ \E api \in APIs : \E key \in KeysOf(api) : Reset(api, key)
    \/ \E d \in BucketDeltas : Tick(d)

SpecApi == InitApi /\ [][NextApi]_vars

NextTools ==
    \/ \E api \in ToolAPIs, path \in ToolOutcomes : ToolRequest(api, path)
    \/ /\ TotalCalls < MaxCalls
       /\ \E api \in ToolAPIs, u \in Users : CheckApiLimit(api, u)
    \/ \E d \in BucketDeltas : Tick(d)

SpecTools == InitTools /\ [][NextTools]_vars

\* The cost functions of the Amplitude client, applied to arguments of every sign
\* and to date strings that do and do not parse
Jan01 == <<2, 0, 2, 4, 0, 1, 0, 1>>
Jan07 == <<2, 0, 2, 4, 0, 1, 0, 7>>
Jan31 == <<2, 0, 2, 4, 0, 1, 3, 1>>
Feb28 == <<2, 0, 2, 4, 0, 2, 2, 8>>
Mar01 == <<2, 0, 2, 4, 0, 3, 0, 1>>
Dec31 == <<2, 0, 2, 3, 1, 2, 3, 1>>
\* "20240230": no such day; "2024-01-31": not digits; "2024131": read as 2024-1-31
Feb30 == <<2, 0, 2, 4, 0, 2, 3, 0>>
Dashed == <<2, 0, 2, 4, Hyphen, 0, 1, Hyphen, 3, 1>>
Short == <<2, 0, 2, 4, 1, 3, 1>>

DateStrings == {Jan01, Jan07, Jan31, Feb28, Mar01, Dec31, Feb30, Dashed, Short}

NextCost ==
    \/ \E days \in (0 - 1) .. MaxDays, conditions \in (0 - 1) .. MaxConditions,
          query_type_cost \in (0 - 1) .. MaxQueryTypeCost :
          CalculateAmplitudeCostCall(days, conditions, query_type_cost)
    \/ \E start_date \in DateStrings, end_date \in DateStrings :
          CalculateDaysCall(start_date, end_date)

SpecCost == Init /\ [][NextCost]_vars

\* The query methods of AmplitudeClient called one after the other for one user
\* within one clock reading, as the tools call them
Events(k) == [i \in 1 .. k |-> "event"]
Filters(k) == [i \in 1 .. k |-> "filter"]

QueryDates == {Jan01, Jan31, Feb30}
SegmentChoices == {None, Some(Filters(0)), Some(Filters(MaxConditions))}
SegmentDefinitionChoices ==
    {None, Some([filters |-> Filters(0)]), Some([filters |-> Filters(MaxConditions)]),
     Some([name |-> Filters(0)])}
GroupByChoices == {None, Some(<<"c", "o", "u", "n", "t", "r", "y">>)}

Queries ==
    {Query(m, s, e, Events(k), seg, g) :
        m \in {"get_event_segmentation", "get_funnel_analysis"},
        s \in QueryDates, e \in QueryDates, k \in 1 .. MaxEvents,
        seg \in SegmentChoices, g \in GroupByChoices}
    \cup {Query("get_retention_analysis", s, e, Events(2), None, None) :
              s \in QueryDates, e \in QueryDates}
    \cup {Query("get_user_counts", s, e, Events(0), seg, g) :
              s \in QueryDates, e \in QueryDates,
              seg \in SegmentDefinitionChoices, g \in GroupByChoices}
    \cup {Query(m, << >>, << >>, Events(0), None, None) : m \in FixedCostMethods}

NextQuery ==
    \/ /\ InFlight = 0
       /\ \E q \in Queries : QueryMethod(q, "user1")
    \/ \E path \in {"200", "429", "timeout"} : HttpComplete("user1", path)

SpecQuery == Init /\ [][NextQuery]_vars

\* Functions wrapped by the rate_limited decorator, with and without a key_func
\* (one that returns the name of f)
InitDecorated == InitState /\ focus = "global"

NextDecorated ==
    \/ /\ TotalCalls < MaxCalls
       /\ \E func \in FuncNames, key_func \in {NoKeyFunc, "f"}, n \in 1 .. MaxTokens :
             RateLimited(func, key_func, n)
    \/ \E d \in BucketDeltas : Tick(d)

SpecDecorated == InitDecorated /\ [][NextDecorated]_vars

\* start_amplitude_request calls whose admitted requests are written down, the
\* requests ending in between
LedgerCosts == {1, HourlyBudget - 1}

NextLedger ==
    \/ /\ TotalCalls < MaxCalls
       /\ \E u \in Users, c \in LedgerCosts : StartRequestRecorded(u, c)
    \/ \E u \in Users : EndRequest(u)
    \/ \E d \in AdmitDeltas : Tick(d)

SpecLedger == Init /\ [][NextLedger]_vars

\* The same with the clock stopped: every call reads the same time.time()
InitBurst == InitState /\ focus \in APIs

NextBurst ==
    \E api \in APIs, u \in Users :
        /\ Calls(ApiKey(api, u)) < limits[api].burst + MaxExtra
        /\ CheckApiLimit(api, u)

SpecBurst == InitBurst /\ [][NextBurst]_vars

\* One limiter of APIRateLimiter under a wall clock that also steps backwards
NextBackward ==
    \/ /\ TotalCalls < MaxCalls
       /\ \E api \in APIs, u \in Users : CheckApiLimit(api, u)
    \/ \E d \in BucketDeltas : Tick(d)
    \/ ClockSteppedBack(Period(focus))

SpecBackward == InitBurst /\ [][NextBackward]_vars

----------------------------------------------------------------------------
(* Vocabulary of the properties *)

Window == HourSeconds * ClockResolution

Samples(u) == IF u \in DOMAIN amplitude_costs THEN amplitude_costs[u] ELSE EmptyDict

ActiveIn(conc, u) == IF u \in DOMAIN conc THEN conc[u] ELSE 0

Active(u) == ActiveIn(amplitude_concurrent, u)

RECURSIVE CostOf(_, _)
CostOf(d, K) == IF K = {} THEN 0
                ELSE LET k == CHOOSE x \in K : TRUE IN d[k] + CostOf(d, K \ {k})

\* the samples of d that are at most 3600 seconds old at clock reading t
InWindow(d, t) == {k \in DOMAIN d : t - Float(k) <= Window}

WindowCost(u, t) == CostOf(Samples(u), InWindow(Samples(u), t))

IsStart(call) == call.op = "start_amplitude_request"

IsCheck(call) ==
    \/ call.op = "check_rate_limit"
    \/ call.op = "check_api_limit" /\ call.key[1] \in APIs

\* the number of check_rate_limit calls on a key that returned true
Admitted(key) == IF key \in DOMAIN hist THEN hist[key].admitted ELSE 0

LimiterOf(call) == IF call.op = "check_rate_limit" THEN "global" ELSE call.key[1]

----------------------------------------------------------------------------
(* Properties of the Amplitude tracker, under Spec *)

\* C1: right after every successful start_amplitude_request of a user, the cost of
\* that user's recorded samples that are at most 3600 seconds old is at most 12000.
C1_HourlyCostWithinBudget ==
    \A u \in Users :
        (IsStart(last) /\ last.ok /\ last.key = <<u>>) => WindowCost(u, now) <= HourlyBudget

\* an admission that fills the budget exactly, after older samples were deleted
C1_Witness ==
    \E u \in Users :
        /\ IsStart(last) /\ last.ok /\ last.key = <<u>>
        /\ last.freed > 0
        /\ WindowCost(u, now) = HourlyBudget

C2_Range == \A u \in Users : 0 <= Active(u) /\ Active(u) <= MaxConcurrent

C2_Step ==
    IsStart(last') =>
        LET u == last'.key[1]
            c == last'.n
        IN  WindowCost(u, now) + c <= HourlyBudget
                => (last'.ok <=> Active(u) < MaxConcurrent)

\* C2: the concurrent counter of every user stays within 0..5, and a
\* start_amplitude_request whose cost fits the hourly budget is admitted exactly
\* when the counter of its user is below 5.
C2_ConcurrencyCap == []C2_Range /\ [][C2_Step]_vars

\* a sixth admission of cost 1 denied while five are unreleased
C2_Witness ==
    \E u \in Users :
        /\ IsStart(last) /\ ~last.ok /\ last.key = <<u>> /\ last.n = 1
        /\ Active(u) = MaxConcurrent
        /\ WindowCost(u, now) + 1 <= HourlyBudget

C5_Step ==
    IsStart(last') =>
        LET u      == last'.key[1]
            c      == last'.n
            live   == InWindow(Samples(u), now)
            total  == CostOf(Samples(u), live)
            denied == total + c > HourlyBudget \/ Active(u) >= MaxConcurrent
            after  == amplitude_costs'[u]
            stamp  == Str(now')
        IN  /\ last'.ok = ~denied
            /\ IF last'.ok
               THEN /\ DOMAIN after = live \cup {stamp}
                    /\ after[stamp] = c
                    /\ \A k \in live \ {stamp} : after[k] = Samples(u)[k]
                    /\ amplitude_concurrent'[u] = Active(u) + 1
               ELSE /\ DOMAIN after = live
                    /\ \A k \in live : after[k] = Samples(u)[k]
                    /\ amplitude_concurrent'[u] = Active(u)

\* C5: start_amplitude_request(user, cost) returns false exactly when the cost of
\* the samples at most 3600 seconds old plus cost exceeds 12000 or the user's
\* counter is at least 5; admitted, it leaves those samples plus the sample
\* (now, cost) and the counter one higher; denied, it leaves those samples, no new
\* one, and the counter as it was.
C5_AdmitDecisionAndEffect == [][C5_Step]_vars

\* a request denied for its cost alone, the counter being below the cap
C5_Witness ==
    \E u \in Users :
        /\ IsStart(last) /\ ~last.ok /\ last.key = <<u>>
        /\ Active(u) > 0 /\ Active(u) < MaxConcurrent
        /\ WindowCost(u, now) + last.n > HourlyBudget

C10_Step ==
    IsStart(last') =>
        LET u     == last'.key[1]
            c     == last'.n
            old   == Samples(u)
            after == amplitude_costs'[u]
            Age(k) == now - Float(k)
        IN  /\ \A k \in DOMAIN old : Age(k) > Window => k \notin DOMAIN after
            /\ \A k \in DOMAIN old : Age(k) <= Window => k \in DOMAIN after
            /\ (\E k \in DOMAIN old : Age(k) <= Window /\ old[k] = HourlyBudget)
                   => ~last'.ok
            /\ ((\A k \in DOMAIN old : Age(k) > Window)
                  /\ c <= HourlyBudget /\ Active(u) < MaxConcurrent)
                   => last'.ok

\* C10: every start_amplitude_request, admitted or denied, deletes the user's
\* samples older than 3600 seconds and keeps those at most 3600 seconds old; while a
\* sample of cost 12000 is at most 3600 seconds old every request is denied, and
\* once all samples are older a request within budget and concurrency is admitted.
C10_WindowExpiry == [][C10_Step]_vars

\* admit(key, 1) admitted by the call that deleted the expired sample of cost 12000
C10_Witness ==
    IsStart(last) /\ last.ok /\ last.n = 1 /\ last.freed = HourlyBudget

IsEnd(call) == call.op = "end_amplitude_request"

C11_Step ==
    IsEnd(last') =>
        LET u == last'.key[1]
        IN  /\ last'.out = "none"
            /\ amplitude_costs' = amplitude_costs
            /\ IF Active(u) > 0
               THEN /\ DOMAIN amplitude_concurrent' = DOMAIN amplitude_concurrent
                    /\ amplitude_concurrent'[u] = amplitude_concurrent[u] - 1
                    /\ \A v \in DOMAIN amplitude_concurrent \ {u} :
                           amplitude_concurrent'[v] = amplitude_concurrent[v]
               ELSE amplitude_concurrent' = amplitude_concurrent

\* C11: end_amplitude_request(user) lowers the counter of that user by exactly 1
\* when it is positive; when it is 0, or the user has no counter yet, the call
\* returns normally and leaves both dicts as they were.
C11_ReleaseDecrementsOrNoOp == [][C11_Step]_vars

\* a release for a user the tracker has never seen, after another user was admitted
C11_Witness ==
    /\ IsEnd(last)
    /\ last.key[1] \notin DOMAIN amplitude_concurrent
    /\ \E v \in DOMAIN amplitude_concurrent : amplitude_concurrent[v] > 0

----------------------------------------------------------------------------
(* Properties of AmplitudeClient._make_request, under SpecClient and SpecSurplus *)

Returned(call) == call.op = "_make_request"

C3_Once == (Returned(last) /\ last.ok) => last.ends = 1

C3_Step ==
    (Returned(last') /\ last'.ok) =>
        LET u == last'.key[1]
        IN  /\ \A v \in Users \ {u} : ActiveIn(amplitude_concurrent', v) = Active(v)
            /\ IF inflight' = inflight
               THEN ActiveIn(amplitude_concurrent', u) = Active(u)
               ELSE ActiveIn(amplitude_concurrent', u) = Active(u) - 1

\* C3: every _make_request execution that start_amplitude_request admitted has
\* called end_amplitude_request exactly once when it returns or raises, whichever
\* way its try block ended, and that call released one unit of its own user's
\* counter and of no other user's.
C3_ReleasedExactlyOnce == []C3_Once /\ [][C3_Step]_vars

\* an admitted request that timed out and still released
C3_Witness ==
    Returned(last) /\ last.ok /\ last.out = "error_request_timeout" /\ last.ends = 1

\* C4: the concurrent counter of every user equals the number of that user's
\* coroutines suspended between their admission and their release, so at most 5
\* HTTP calls of a user are in flight, and every counter is 0 when none is.
C4_CounterIsInFlight ==
    /\ \A u \in Users : Active(u) = inflight[u] /\ inflight[u] <= MaxConcurrent
    /\ (\A u \in Users : inflight[u] = 0) => (\A u \in Users : Active(u) = 0)

\* a sixth overlapping request of cost 1 turned away while five are in flight
C4_Witness ==
    \E u \in Users :
        /\ Returned(last) /\ ~last.ok /\ last.key = <<u>> /\ last.n = 1
        /\ inflight[u] = MaxConcurrent
        /\ WindowCost(u, now) + 1 <= HourlyBudget

C13_Step ==
    (Returned(last') /\ ~last'.ok) =>
        LET u == last'.key[1]
        IN  /\ inflight' = inflight
            /\ last'.ends = 0
            /\ ActiveIn(amplitude_concurrent', u) = Active(u)
            /\ last'.out = "error_rate_limit_exceeded"

\* C13: a _make_request that start_amplitude_request turned away issues no HTTP
\* call, makes no end_amplitude_request call, leaves the counter of its user as it
\* was, and returns the rate-limit error document.
C13_DeniedIssuesNothing == [][C13_Step]_vars

\* a request turned away for its cost alone while others of the user are in flight
C13_Witness ==
    \E u \in Users :
        /\ Returned(last) /\ ~last.ok /\ last.key = <<u>> /\ last.n = HourlyBudget
        /\ inflight[u] > 0 /\ inflight[u] < MaxConcurrent
        /\ Active(u) = inflight[u]

\* C14: every Amplitude HTTP call in flight was admitted by both checks: the
\* token bucket of "amplitude:<user>" admitted one check_api_limit call for it,
\* and start_amplitude_request returned true for it.
C14_BothChecksPassed ==
    /\ \A u \in Users : inflight[u] <= Admitted(ApiKey("amplitude", u))
    /\ last.op = "await_get" => last.ok

\* C12: with end_amplitude_request also called when no request finished, no
\* counter is negative and at most 5 admitted requests of a user are unfinished.
C12_NoExtraHeadroom ==
    \A u \in Users : Active(u) >= 0 /\ inflight[u] <= MaxConcurrent

----------------------------------------------------------------------------
(* Properties of the Notion, Slack and GitHub clients, under SpecTools *)

\* C15: every HTTP call of a Notion, Slack or GitHub client method comes after a
\* check_api_limit call for that API family that returned true.
C15_ToolCallsChecked ==
    last.op = "http_request" =>
        \E u \in Users : Admitted(ApiKey(last.key[1], u)) >= 1

----------------------------------------------------------------------------
(* Properties of TokenBucket and RateLimiter, under SpecBucket and SpecBurst *)

Capacity(lim) == Config(lim).burst * TokenScale

\* C6: the token count of every bucket stays within 0..capacity.
C6_TokensWithinCapacity ==
    \A lim \in Limiters : \A k \in DOMAIN buckets[lim] :
        /\ 0 <= buckets[lim][k].tokens
        /\ buckets[lim][k].tokens <= buckets[lim][k].capacity * TokenScale

\* a bucket whose refill was clamped at capacity and that was then emptied: burst + 1
\* admissions of one token each leave exactly 0 tokens
C6_Witness ==
    \E api \in APIs : \E k \in DOMAIN buckets[api] :
        /\ buckets[api][k].tokens = 0
        /\ hist[k].admitted = limits[api].burst + 1

C7_Step ==
    IsCheck(last') =>
        LET lim      == LimiterOf(last')
            k        == last'.key
            n        == last'.n
            fresh    == k \notin DOMAIN buckets[lim]
            before   == IF fresh THEN Capacity(lim) ELSE buckets[lim][k].tokens
            since    == IF fresh THEN now ELSE buckets[lim][k].last_refill
            grown    == before + (now - since) * RefillRate(lim)
            refilled == IF grown > Capacity(lim) THEN Capacity(lim) ELSE grown
            b        == buckets'[lim][k]
        IN  /\ b.last_refill = now
            /\ last'.ok = (refilled >= n * TokenScale)
            /\ b.tokens = IF last'.ok THEN refilled - n * TokenScale ELSE refilled

\* C7: consume(n) refills to min(capacity, tokens + elapsed * refill_rate), stamps
\* last_refill with the clock, returns true and takes n when the refilled count is
\* at least n, and otherwise returns false and leaves the refilled count.
C7_ConsumeEffect == [][C7_Step]_vars

\* a call rejected after a partial refill, which the bucket keeps
C7_Witness ==
    /\ IsCheck(last) /\ ~last.ok /\ now > 0
    /\ LET b == buckets[LimiterOf(last)][last.key]
       IN  b.tokens > 0 /\ b.last_refill = now

ClaimedBurst == [notion |-> 20, slack |-> 10, github |-> 100, amplitude |-> 5]

C8_Counts ==
    \A k \in DOMAIN hist :
        LET api == k[1]
        IN  /\ limits[api].burst = ClaimedBurst[api]
            /\ hist[k].admitted = Min(hist[k].calls, ClaimedBurst[api])
            /\ buckets[api][k].tokens = (ClaimedBurst[api] - hist[k].admitted) * TokenScale
            /\ (last.op = "check_api_limit" /\ last.key = k)
                   => (last.ok <=> hist[k].calls <= ClaimedBurst[api])

C8_Step ==
    \A api \in APIs : \A k \in DOMAIN buckets[api] :
        buckets'[api][k].tokens <= buckets[api][k].tokens

\* C8: with the clock stopped, no call raises a bucket's token count; on a key never
\* used before, the first `burst` check_api_limit calls are admitted and every
\* later one is rejected (burst 20, 10, 100, 5 for notion, slack, github,
\* amplitude), and what was consumed never exceeds the initial capacity.
C8_BurstThenReject == []C8_Counts /\ [][C8_Step]_vars

\* the 101st call on a github key rejected after 100 admissions
C8_Witness ==
    \E u \in Users :
        LET k == ApiKey("github", u)
        IN  /\ k \in DOMAIN hist
            /\ hist[k].calls = GithubBurst + 1 /\ hist[k].admitted = GithubBurst
            /\ last.key = k /\ ~last.ok

C9_Step ==
    (IsCheck(last') /\ last'.n = 1) =>
        LET lim == LimiterOf(last')
            k   == last'.key
        IN  (k \in DOMAIN buckets[lim] /\ buckets[lim][k].tokens = 0)
               => (last'.ok <=>
                     (now - buckets[lim][k].last_refill) * RefillRate(lim) >= TokenScale)

\* C9: consume(1) on a bucket holding 0 tokens, t after its last refill, succeeds
\* exactly when t times the refill rate is at least one token.
C9_RefillThreshold == [][C9_Step]_vars

\* an emptied bucket that admits again exactly one refill period later
C9_Witness ==
    /\ IsCheck(last) /\ last.ok /\ last.n = 1 /\ ticks = 1
    /\ LET lim == LimiterOf(last)
           b   == buckets[lim][last.key]
       IN  /\ now = Period(lim) /\ b.last_refill = now
           /\ b.tokens = Period(lim) * RefillRate(lim) - TokenScale

C16_Step ==
    IsCheck(last') =>
        LET lim   == LimiterOf(last')
            k     == last'.key
            alone == IF k \in DOMAIN buckets[lim] THEN [j \in {k} |-> buckets[lim][k]]
                     ELSE EmptyDict
            solo  == CheckRateLimitOf(lim, alone, k, last'.n, now)
        IN  /\ \A l \in Limiters :
                 DOMAIN buckets'[l] = DOMAIN buckets[l] \cup (IF l = lim THEN {k} ELSE {})
            /\ \A l \in Limiters : \A j \in DOMAIN buckets[l] :
                 (l # lim \/ j # k) => buckets'[l][j] = buckets[l][j]
            /\ last'.ok = solo.ok
            /\ buckets'[lim][k] = solo.buckets[k]

\* C16: a check_rate_limit or check_api_limit call on one key leaves the bucket of
\* every other key as it was, tokens and last_refill included, and creates no
\* bucket but its own; what it returns and the bucket it leaves are what the same
\* call returns and leaves when no other key has a bucket.
C16_KeysIndependent == [][C16_Step]_vars

\* one user's bucket emptied by its calls while the other user's bucket, last used
\* before the clock advanced, still holds what that use left
C16_Witness ==
    \E api \in APIs : \E u \in Users : \E v \in Users \ {u} :
        /\ IsCheck(last) /\ last.key = ApiKey(api, u)
        /\ buckets[api][ApiKey(api, u)].tokens = 0
        /\ ApiKey(api, v) \in DOMAIN buckets[api]
        /\ buckets[api][ApiKey(api, v)].last_refill < now
        /\ buckets[api][ApiKey(api, v)].tokens = (limits[api].burst - 1) * TokenScale

----------------------------------------------------------------------------
(* Properties of reset and wait_if_limited, under SpecApi *)

IsReset(call) == call.op = "reset"

IsWait(call) == call.op = "wait_if_limited"

\* the limiter a bucket key belongs to
LimiterOfKey(key) == IF Len(key) = 1 THEN "global" ELSE key[1]

C17_Step ==
    /\ IsReset(last') =>
          LET lim == LimiterOfKey(last'.key)
              k   == last'.key
          IN  /\ DOMAIN buckets'[lim] = DOMAIN buckets[lim] \ {k}
              /\ \A j \in DOMAIN buckets[lim] \ {k} : buckets'[lim][j] = buckets[lim][j]
              /\ \A l \in Limiters \ {lim} : buckets'[l] = buckets[l]
    /\ (IsCheck(last') /\ last'.key \notin DOMAIN buckets[LimiterOf(last')]) =>
          LET b == buckets'[LimiterOf(last')][last'.key]
          IN  /\ last'.ok
              /\ b.tokens = Capacity(LimiterOf(last')) - last'.n * TokenScale
              /\ b.last_refill = now
    /\ (IsWait(last') /\ last'.key[1] \in APIs
           /\ last'.key \notin DOMAIN buckets[last'.key[1]]) =>
          LET b == buckets'[last'.key[1]][last'.key]
          IN  /\ last'.out = "None"
              /\ b.tokens = Capacity(last'.key[1])
              /\ b.last_refill = now

\* C17: reset(key) removes the bucket of that key and leaves every other bucket as
\* it was, and with no bucket for the key it changes nothing; the next access for a
\* key without a bucket, by a check or by wait_if_limited, creates the bucket with
\* the full burst capacity, whatever an earlier bucket of the key held.
C17_ResetRecreatesFull == [][C17_Step]_vars

\* with the clock stopped, the check that follows the reset of an emptied bucket:
\* it is the key's burst + 1st admission and leaves burst - 1 tokens
C17_Witness ==
    \E api \in APIs : \E u \in Users :
        LET k == ApiKey(api, u)
        IN  /\ ticks = 0 /\ IsCheck(last) /\ last.key = k /\ last.ok
            /\ Admitted(k) = limits[api].burst + 1
            /\ buckets[api][k].tokens = (limits[api].burst - 1) * TokenScale

C18_Step ==
    ((last'.op = "check_api_limit" \/ IsWait(last')) /\ last'.key[1] \notin APIs) =>
        /\ buckets' = buckets
        /\ last'.op = "check_api_limit" => last'.ok
        /\ IsWait(last') => (last'.out = "None" /\ last'.wait = NoWait)

\* C18: for an api with no configured limiter every check_api_limit call returns
\* true and every wait_if_limited call returns None, and neither creates or
\* changes a bucket of any limiter.
C18_FailOpen == [][C18_Step]_vars

\* the third check for an unconfigured api admitted like those before it, after
\* the clock has advanced, with no bucket anywhere
C18_Witness ==
    /\ last.op = "check_api_limit" /\ last.key[1] \notin APIs /\ last.ok
    /\ now > 0
    /\ hist[last.key].calls >= 3 /\ hist[last.key].admitted = hist[last.key].calls
    /\ \A l \in Limiters : DOMAIN buckets[l] = {}

C19_Step ==
    (IsWait(last') /\ last'.key[1] \in APIs) =>
        LET api     == last'.key[1]
            k       == last'.key
            fresh   == k \notin DOMAIN buckets[api]
            before  == IF fresh THEN Capacity(api) ELSE buckets[api][k].tokens
            since   == IF fresh THEN now ELSE buckets[api][k].last_refill
            grown   == before + (now - since) * RefillRate(api)
            current == IF grown > Capacity(api) THEN Capacity(api) ELSE grown
        IN  IF current < TokenScale
            THEN /\ last'.out = "wait_time"
                 /\ last'.wait = <<TokenScale - current, RefillRate(api)>>
            ELSE last'.out = "None"

\* C19: wait_if_limited answers from the token count as of the current clock
\* reading, min(capacity, tokens + elapsed * refill_rate): it returns
\* (1 - that count) / refill_rate when the count is below 1 and None otherwise.
C19_WaitUsesCurrentTokens == [][C19_Step]_vars

\* C20: a wait_if_limited call, on a used or a never used key, leaves the set of
\* buckets and every bucket's tokens and last_refill as they were.
C20_WaitReadOnly == [][IsWait(last') => buckets' = buckets]_vars

----------------------------------------------------------------------------
(* Properties of the cost functions, under SpecCost *)

IsCostCall(call) == call.op = "calculate_amplitude_cost"

IsDaysCall(call) == call.op = "_calculate_days"

C21_Step ==
    IsCostCall(last') =>
        /\ last'.n = last'.query.args[1] * last'.query.args[2] * last'.query.args[3]
        /\ (last'.query.args = <<7, 1, 8>> => last'.n = 56)
        /\ (last'.query.args = <<1, 1, 1>> => last'.n = 1)
        /\ (last'.query.args = <<31, 2, 10>> => last'.n = 620)
        /\ UNCHANGED <<buckets, amplitude_costs, amplitude_concurrent>>

\* C21: calculate_amplitude_cost(days, conditions, query_type_cost) returns
\* days * conditions * query_type_cost for integer arguments of every sign (56 for
\* 7, 1, 8; 1 for 1, 1, 1; 620 for 31, 2, 10) and leaves the buckets, the cost
\* samples and the concurrent counters as they were.
C21_CostIsProduct == [][C21_Step]_vars

C21_Witness ==
    /\ IsCostCall(last)
    /\ last.query.args = <<31, 2, 10>>
    /\ last.n = 620

\* the calendar days from the day of ordinal a to the day of ordinal b, both counted
InclusiveDays(a, b) == Cardinality(a .. b)

----------------------------------------------------------------------------
(* Properties of the query methods, under SpecQuery *)

\* the call submitted a cost to admission through _make_request
Submitted(call) ==
    /\ call.op \in {"await_get", "_make_request"}
    /\ call.query.method \in CostedMethods \cup FixedCostMethods

\* the segment filters a query supplies
SuppliedFilters(q) ==
    IF ~q.segments.some THEN << >>
    ELSE IF q.method = "get_user_counts"
    THEN (IF "filters" \in DOMAIN q.segments.val THEN q.segments.val["filters"] ELSE << >>)
    ELSE q.segments.val

ExpectedConditions(q) == IF Len(SuppliedFilters(q)) = 0 THEN 1 ELSE Len(SuppliedFilters(q))

ExpectedBase(q) ==
    LET group == IF q.group_by.some THEN 4 ELSE 0
    IN  CASE q.method = "get_event_segmentation" -> Len(q.events) + group
          [] q.method = "get_funnel_analysis"    -> 2 * Len(q.events) + group
          [] q.method = "get_retention_analysis" -> 8
          [] q.method = "get_user_counts"        -> 1 + group

\* C23: the cost a query method submits to admission is days * conditions * base,
\* conditions being the number of segment filters supplied and 1 when none is
\* supplied, base being numEvents + (4 if groupBy) for event segmentation,
\* 2 * numEvents + (4 if groupBy) for funnels, 8 for retention and 1 + (4 if groupBy)
\* for user counts; taxonomy, events-list and realtime requests submit cost 1.
C23_SubmittedCost ==
    Submitted(last) =>
        LET q == last.query
        IN  IF q.method \in FixedCostMethods THEN last.n = 1
            ELSE last.n = CalculateDays(q.start_date, q.end_date)
                          * ExpectedConditions(q) * ExpectedBase(q)

\* the tool of the query method lets the arguments through to the client
AcceptedByValidators(q) ==
    /\ q.method \in CostedMethods => ValidateDateFormat(q.start_date, q.end_date)
    /\ q.method = "get_event_segmentation" => ValidateEventsList(q.events, 1, 2)
    /\ q.method = "get_funnel_analysis" => ValidateEventsList(q.events, 2, 10)

\* C27: for every input the tool validators accept (two dates in YYYYMMDD form in
\* either order, any supplied segment definitions), the cost passed to
\* start_amplitude_request is at least 1.
C27_CostAtLeastOne ==
    (Submitted(last) /\ AcceptedByValidators(last.query)) => last.n >= 1

----------------------------------------------------------------------------
(* Properties of the rate_limited decorator, under SpecDecorated *)

IsDecorated(call) == call.op = "rate_limited"

IsAdmissionEntry(call) ==
    call.op \in {"check_rate_limit", "check_api_limit", "start_amplitude_request",
                 "rate_limited"}

\* C24: no admission entry point of the rate-limiter module (check_rate_limit,
\* check_api_limit, start_amplitude_request, a function wrapped by rate_limited)
\* signals a denial by raising an exception.
C24_DenialIsReturned ==
    (IsAdmissionEntry(last) /\ ~last.ok) => last.out # "raises_exception"

ClaimedGlobal == [burst |-> 10, requests_per_minute |-> 60]

C29_Step ==
    IsDecorated(last') =>
        LET func     == last'.key[1]
            key_func == last'.key[2]
            k        == IF key_func = NoKeyFunc THEN <<func>> ELSE <<key_func>>
            n        == last'.n
            fresh    == k \notin DOMAIN buckets["global"]
            full     == ClaimedGlobal.burst * TokenScale
            before   == IF fresh THEN full ELSE buckets["global"][k].tokens
            since    == IF fresh THEN now ELSE buckets["global"][k].last_refill
            grown    == before + (now - since) * ClaimedGlobal.requests_per_minute
            refilled == IF grown > full THEN full ELSE grown
            runs     == last'.out = "func_called"
        IN  /\ runs <=> refilled >= n * TokenScale
            /\ ~runs <=> last'.out = "raises_exception"
            /\ DOMAIN buckets'["global"] = DOMAIN buckets["global"] \cup {k}
            /\ buckets'["global"][k].tokens =
                   IF runs THEN refilled - n * TokenScale ELSE refilled
            /\ \A j \in DOMAIN buckets["global"] \ {k} :
                   buckets'["global"][j] = buckets["global"][j]
            /\ \A l \in APIs : buckets'[l] = buckets[l]

\* C29: a function wrapped by rate_limited runs exactly when the bucket of the
\* module-level limiter for its key (the key_func result, or the function name when
\* there is no key_func) held at least `tokens` tokens after refill; otherwise the
\* function is not invoked and the bucket keeps its refilled count; every call with
\* the same key works on the one bucket of that key, of burst 10 and 60 per minute.
C29_WrapperGate == [][C29_Step]_vars

\* g, keyed by a key_func to the name of f, is refused on the bucket that calls of f
\* and g emptied together
C29_Witness ==
    /\ IsDecorated(last) /\ ~last.ok
    /\ last.key[1] = "g" /\ last.key[2] = "f"
    /\ DOMAIN buckets["global"] = {<<"f">>}
    /\ hist[<<"f">>].calls = MaxCalls

----------------------------------------------------------------------------
(* Polling of a bucket, under SpecBucket *)

\* the tokens a bucket left untouched until clock reading t holds at t
TokensAt(b, t) ==
    LET grown == b.tokens + (t - b.last_refill) * b.refill_rate
    IN  IF grown > b.capacity * TokenScale THEN b.capacity * TokenScale ELSE grown

LaterReadings(lim) == {0, 1, Period(lim) - 1, Period(lim), 2 * Period(lim),
                       Config(lim).burst * Period(lim)}

C25_Step ==
    (IsCheck(last') /\ ~last'.ok) =>
        LET lim == LimiterOf(last')
            k   == last'.key
        IN  /\ k \in DOMAIN buckets[lim]
            /\ \A d \in LaterReadings(lim) :
                   TokensAt(buckets'[lim][k], now + d) = TokensAt(buckets[lim][k], now + d)

\* C25: the token count of a bucket depends only on the elapsed time and the
\* successful consumptions, not on how often it was polled: a rejected consume call
\* leaves the count the bucket holds at every later time what it would have been
\* without the call, so any number of rejected calls between two points in time do.
C25_PollingIndependent == [][C25_Step]_vars

\* a call rejected on a fraction of a token, one clock reading before the bucket
\* holds a whole one
C25_Witness ==
    /\ IsCheck(last) /\ ~last.ok /\ ticks = 1
    /\ LET b == buckets[LimiterOf(last)][last.key]
       IN  /\ b.tokens > 0 /\ b.tokens < TokenScale
           /\ TokensAt(b, now + 1) >= TokenScale

----------------------------------------------------------------------------
(* Users of the Amplitude tracker, under SpecUsers *)

IsTrackerCall(call) ==
    call.op \in {"start_amplitude_request", "check_amplitude_limits",
                 "end_amplitude_request"}

C28_Step ==
    IsTrackerCall(last') =>
        \A v \in Users \ {last'.key[1]} :
            /\ v \in DOMAIN amplitude_costs' <=> v \in DOMAIN amplitude_costs
            /\ v \in DOMAIN amplitude_concurrent' <=> v \in DOMAIN amplitude_concurrent
            /\ v \in DOMAIN amplitude_costs => amplitude_costs'[v] = amplitude_costs[v]
            /\ v \in DOMAIN amplitude_concurrent =>
                   amplitude_concurrent'[v] = amplitude_concurrent[v]

\* C28: start_amplitude_request, check_amplitude_limits and end_amplitude_request
\* for one user leave the cost samples and the concurrent counter of every other
\* user as they were.
C28_UsersIndependent == [][C28_Step]_vars

\* a call for one user deleted that user's expired samples while another user's
\* expired sample and active request stay recorded
C28_Witness ==
    \E u \in Users : \E v \in Users \ {u} :
        /\ IsTrackerCall(last) /\ last.key = <<u>> /\ last.freed > 0
        /\ \E k \in DOMAIN Samples(v) : now - Float(k) > Window
        /\ Active(v) > 0

----------------------------------------------------------------------------
(* The requests admitted within an hour, under SpecLedger *)

\* the admitted requests of a ledger that are at most 3600 seconds old at reading t
Recent(ledger, t) == {i \in 1 .. Len(ledger) : t - ledger[i].at <= Window}

RECURSIVE LedgerCost(_, _)
LedgerCost(ledger, I) ==
    IF I = {} THEN 0
    ELSE LET i == CHOOSE x \in I : TRUE IN ledger[i].cost + LedgerCost(ledger, I \ {i})

\* C26: for every user and any clock readings, two admissions at the same clock
\* reading included, the total cost of the requests start_amplitude_request admitted
\* within the trailing 3600 seconds is at most 12000, and every admitted request of
\* that time has a sample of its own.
C26_AdmittedWithinBudget ==
    \A u \in Users :
        LET ledger == Ledger(<<u>>)
        IN  /\ LedgerCost(ledger, Recent(ledger, now)) <= HourlyBudget
            /\ Cardinality(InWindow(Samples(u), now)) = Cardinality(Recent(ledger, now))

----------------------------------------------------------------------------
(* A clock that steps backwards, under SpecBackward *)

C30_Step ==
    IsCheck(last') =>
        LET lim == LimiterOf(last')
            k   == last'.key
        IN  (k \in DOMAIN buckets[lim] /\ now < buckets[lim][k].last_refill) =>
                LET taken    == IF last'.ok THEN last'.n * TokenScale ELSE 0
                    refilled == buckets'[lim][k].tokens + taken
                IN  /\ refilled >= buckets[lim][k].tokens
                    /\ buckets'[lim][k].tokens >= 0
                    /\ buckets'[lim][k].tokens <= Capacity(lim)

\* C30: when the clock reading at a consume call is earlier than the last_refill of
\* the bucket, the refill step does not reduce the token count, and the count stays
\* within 0 .. capacity.
C30_BackwardClockHarmless == [][C30_Step]_vars

====
